---- MODULE Spec2Model ----
(***************************************************************************)
(* Custom fields of nautobot (nautobot/extras/models/customfields.py):     *)
(* CustomField (the schema record), CustomFieldChoice (the choices of a    *)
(* selection field), CustomFieldModel (a record carrying                   *)
(* custom_field_data) and the two background jobs the models enqueue.      *)
(***************************************************************************)
EXTENDS Integers, Sequences, FiniteSets, TLC

VARIABLES
    fields,     \* CustomField table: pk -> row
    choices,    \* CustomFieldChoice table: pk -> row
    records,    \* the CustomFieldModel rows: record id -> [ct, data]
    queue,      \* jobs handed to .delay(), oldest first
    txn,        \* the enclosing transaction of the request, if one is open
    deleting,   \* the choice whose delete() is between its checks and super().delete()
    origin,     \* history: pk -> the name and type a field was created with
    last        \* history: the last call made and what it returned or raised

vars == <<fields, choices, records, queue, txn, deleting, origin, last>>

----------------------------------------------------------------------------
(* JSON / Python values.  One record shape for every kind:                 *)
(*   k = "null"                                                            *)
(*   k = "bool"   n = 0 | 1                                                *)
(*   k = "int"    n = the integer                                          *)
(*   k = "float"  n = the number in tenths (37 is 3.7)                     *)
(*   k = "str"    s = the characters                                       *)
(*   k = "list"   l = the elements, each a string (its characters)         *)
(*   k = "date"   a datetime.date instance (in-memory only)                *)

VNone == [k |-> "null", n |-> 0, s |-> <<>>, l |-> <<>>]
VBool(b) == [k |-> "bool", n |-> IF b THEN 1 ELSE 0, s |-> <<>>, l |-> <<>>]
VInt(i) == [k |-> "int", n |-> i, s |-> <<>>, l |-> <<>>]
VFloat(tenths) == [k |-> "float", n |-> tenths, s |-> <<>>, l |-> <<>>]
VStr(chars) == [k |-> "str", n |-> 0, s |-> chars, l |-> <<>>]
VList(elems) == [k |-> "list", n |-> 0, s |-> <<>>, l |-> elems]
VDate == [k |-> "date", n |-> 0, s |-> <<>>, l |-> <<>>]

Range(seq) == {seq[i] : i \in 1..Len(seq)}

Digits == {"0", "1", "2", "3", "4", "5", "6", "7", "8", "9"}

DigitVal(c) ==
    CASE c = "0" -> 0 [] c = "1" -> 1 [] c = "2" -> 2 [] c = "3" -> 3
      [] c = "4" -> 4 [] c = "5" -> 5 [] c = "6" -> 6 [] c = "7" -> 7
      [] c = "8" -> 8 [] c = "9" -> 9

RECURSIVE DigitsVal(_)
DigitsVal(chars) ==
    IF chars = <<>> THEN 0
    ELSE DigitsVal(SubSeq(chars, 1, Len(chars) - 1)) * 10 + DigitVal(chars[Len(chars)])

AllDigits(chars) == chars /= <<>> /\ \A i \in 1..Len(chars) : chars[i] \in Digits

\* The numeric value of a number in the order Python compares numbers:
\* everything in tenths.
Tenths(v) == IF v.k = "float" THEN v.n ELSE v.n * 10

IsNumber(v) == v.k \in {"bool", "int", "float"}

\* Python's ==, on the kinds above.
PyEq(a, b) ==
    IF IsNumber(a) /\ IsNumber(b) THEN Tenths(a) = Tenths(b)
    ELSE a.k = b.k /\ a.s = b.s /\ a.l = b.l /\ ~IsNumber(a)

\* A variant that takes only None for empty (value is not None).
IsEmptyNoneOnly(v) == PyEq(v, VNone)

\* value in [None, "", []]
IsEmpty(v) == PyEq(v, VNone) \/ PyEq(v, VStr(<<>>)) \/ PyEq(v, VList(<<>>))

\* bool(value)
Truthy(v) ==
    CASE v.k = "null" -> FALSE
      [] IsNumber(v) -> v.n /= 0
      [] v.k = "str" -> v.s /= <<>>
      [] v.k = "list" -> v.l /= <<>>
      [] OTHER -> TRUE

\* int(value): "ok" with the integer, "ValueError" or "TypeError".
StrIsInt(chars) ==
    \/ AllDigits(chars)
    \/ Len(chars) > 1 /\ chars[1] \in {"-", "+"} /\ AllDigits(Tail(chars))

StrToInt(chars) ==
    IF chars[1] = "-" THEN 0 - DigitsVal(Tail(chars))
    ELSE IF chars[1] = "+" THEN DigitsVal(Tail(chars))
    ELSE DigitsVal(chars)

\* float -> int truncates toward zero
Trunc(tenths) == IF tenths >= 0 THEN tenths \div 10 ELSE 0 - ((0 - tenths) \div 10)

PyInt(v) ==
    CASE v.k \in {"bool", "int"} -> [st |-> "ok", n |-> v.n]
      [] v.k = "float" -> [st |-> "ok", n |-> Trunc(v.n)]
      [] v.k = "str" -> IF StrIsInt(v.s) THEN [st |-> "ok", n |-> StrToInt(v.s)]
                        ELSE [st |-> "ValueError", n |-> 0]
      [] OTHER -> [st |-> "TypeError", n |-> 0]

\* re.match(regex, value) for a regex without metacharacters: the regex is a
\* prefix of the value (re.match anchors at the start only).
IsPrefix(p, chars) == Len(p) <= Len(chars) /\ SubSeq(chars, 1, Len(p)) = p

\* set(value): the elements Python iterates over.
Iterable(v) == v.k \in {"str", "list"}
Elements(v) == IF v.k = "str" THEN {<<v.s[i]>> : i \in 1..Len(v.s)} ELSE Range(v.l)

\* x in container, for a string x: substring of a string, element of a list.
IsSubstring(x, chars) ==
    \E i \in 0..(Len(chars) - Len(x)) : SubSeq(chars, i + 1, i + Len(x)) = x

\* datetime.strptime(value, "%Y-%m-%d") succeeds: four digits, one or two
\* digits of a month, one or two digits of a day that the month has.
IsLeap(y) == (y % 4 = 0 /\ y % 100 /= 0) \/ y % 400 = 0

DaysIn(y, m) ==
    IF m = 2 THEN (IF IsLeap(y) THEN 29 ELSE 28)
    ELSE IF m \in {4, 6, 9, 11} THEN 30 ELSE 31

StrIsDate(chars) ==
    \E ml \in {1, 2}, dl \in {1, 2} :
        /\ Len(chars) = 6 + ml + dl
        /\ AllDigits(SubSeq(chars, 1, 4))
        /\ chars[5] = "-"
        /\ AllDigits(SubSeq(chars, 6, 5 + ml))
        /\ chars[6 + ml] = "-"
        /\ AllDigits(SubSeq(chars, 7 + ml, 6 + ml + dl))
        /\ LET y == DigitsVal(SubSeq(chars, 1, 4))
               m == DigitsVal(SubSeq(chars, 6, 5 + ml))
               d == DigitsVal(SubSeq(chars, 7 + ml, 6 + ml + dl))
           IN  y >= 1 /\ m \in 1..12 /\ d >= 1 /\ d <= DaysIn(y, m)

----------------------------------------------------------------------------
(* CustomFieldTypeChoices *)
TYPE_TEXT == "text"
TYPE_INTEGER == "integer"
TYPE_BOOLEAN == "boolean"
TYPE_DATE == "date"
TYPE_URL == "url"
TYPE_SELECT == "select"
TYPE_MULTISELECT == "multi-select"

FieldTypes ==
    {TYPE_TEXT, TYPE_INTEGER, TYPE_BOOLEAN, TYPE_DATE, TYPE_URL, TYPE_SELECT,
     TYPE_MULTISELECT}

(* What a call returns or raises. *)
OK == "ok"
ValidationErrors ==
    {"required", "regex", "not_integer", "below_minimum", "above_maximum",
     "not_boolean", "bad_date", "invalid_choice"}

\* A variant that stops at the first choice of the field.
ChoiceValuesFirst(pk) ==
    LET mine == {c \in DOMAIN choices : choices[c].field = pk}
    IN  {choices[c].value : c \in {d \in mine : \A e \in mine : d <= e}}

\* self.choices.values_list("value", flat=True) of the field with this pk
ChoicesOf(pk) == {c \in DOMAIN choices : choices[c].field = pk}
ChoiceValues(pk) == {choices[c].value : c \in ChoicesOf(pk)}

\* The integer branch of CustomField.validate.
ValidateInteger(f, value) ==
    LET conv == PyInt(value)
    IN  IF conv.st = "ValueError" THEN "not_integer"
        ELSE IF conv.st = "TypeError" THEN "TypeError"
        ELSE IF f.validation_minimum /= VNone /\ ~IsNumber(value) THEN "TypeError"
        ELSE IF f.validation_minimum /= VNone
                /\ Tenths(value) < Tenths(f.validation_minimum) THEN "below_minimum"
        ELSE IF f.validation_maximum /= VNone /\ ~IsNumber(value) THEN "TypeError"
        ELSE IF f.validation_maximum /= VNone
                /\ Tenths(value) > Tenths(f.validation_maximum) THEN "above_maximum"
        ELSE OK

\* CustomField.validate(value) of the field object f whose primary key is pk:
\* OK, one of ValidationErrors, or "TypeError" where Python raises that.
Validate(f, pk, value) ==
    IF ~IsEmpty(value) THEN
        CASE f.type = TYPE_TEXT ->
                IF f.validation_regex = <<>> THEN OK
                ELSE IF value.k /= "str" THEN "TypeError"
                ELSE IF ~IsPrefix(f.validation_regex, value.s) THEN "regex"
                ELSE OK
          [] f.type = TYPE_INTEGER -> ValidateInteger(f, value)
          [] f.type = TYPE_BOOLEAN ->
                IF \E b \in {VBool(TRUE), VBool(FALSE), VInt(1), VInt(0)} : PyEq(value, b)
                THEN OK ELSE "not_boolean"
          [] f.type = TYPE_DATE ->
                IF value.k = "date" THEN OK
                ELSE IF value.k /= "str" THEN "TypeError"
                ELSE IF StrIsDate(value.s) THEN OK ELSE "bad_date"
          [] f.type = TYPE_SELECT ->
                IF value.k = "str" /\ value.s \in ChoiceValues(pk) THEN OK
                ELSE "invalid_choice"
          [] f.type = TYPE_MULTISELECT ->
                IF ~Iterable(value) THEN "TypeError"
                ELSE IF Elements(value) \subseteq ChoiceValues(pk) THEN OK
                ELSE "invalid_choice"
          [] OTHER -> OK
    ELSE IF f.required THEN "required"
    ELSE OK

----------------------------------------------------------------------------
(* Rows. *)

\* CustomField.weight's default
DefaultWeight == 100

\* A CustomField object: its columns and its content_types association.
FieldRow(name, type, required, default, vmin, vmax, regex, weight, cts) ==
    [name |-> name, type |-> type, required |-> required, default |-> default,
     validation_minimum |-> vmin, validation_maximum |-> vmax,
     validation_regex |-> regex, weight |-> weight, content_types |-> cts]

NoRow == FieldRow("", TYPE_TEXT, FALSE, VNone, VNone, VNone, <<>>, DefaultWeight, {})

\* A CustomFieldChoice object.
ChoiceRow(field, value) == [field |-> field, value |-> value]
NoChoice == ChoiceRow(0, <<>>)

\* One item of custom_field_data (a dict keeps its insertion order).
Item(key, val) == [key |-> key, val |-> val]
Keys(data) == {data[i].key : i \in 1..Len(data)}

\* Field names, in Python's string order.
NameSeq == <<"f", "g", "h">>
Names == Range(NameSeq)
NameRank(name) == CHOOSE i \in 1..Len(NameSeq) : NameSeq[i] = name

\* Record types (ContentType pks) and the records, each of one type.
RecordTypes == {"T1", "T2"}
RecordIds == {"r1", "r2"}
TypeOf(rid) == IF rid = "r1" THEN "T1" ELSE "T2"

----------------------------------------------------------------------------
(* CustomFieldModel.clean *)

\* A variant that does not filter by content type.
GetForModelAll(ct) == DOMAIN fields

\* CustomField.objects.get_for_model(model)
GetForModel(ct) == {pk \in DOMAIN fields : ct \in fields[pk].content_types}

\* Meta.ordering = ["weight", "name"]
Before(p, q) ==
    \/ fields[p].weight < fields[q].weight
    \/ fields[p].weight = fields[q].weight
       /\ NameRank(fields[p].name) < NameRank(fields[q].name)

NoError == [kind |-> OK, name |-> ""]

\* The body of the first loop for one item.
ItemError(ct, item) ==
    LET known == {pk \in GetForModel(ct) : fields[pk].name = item.key}
    IN  IF known = {} THEN [kind |-> "unknown_field", name |-> item.key]
        ELSE LET pk == CHOOSE p \in known : TRUE
                 r == Validate(fields[pk], pk, item.val)
             IN  IF r \in ValidationErrors
                 THEN [kind |-> "invalid_value", name |-> item.key]
                 ELSE IF r = "TypeError" THEN [kind |-> "TypeError", name |-> item.key]
                 ELSE NoError

\* The required fields the second loop finds without a key.
MissingRequired(ct, data) ==
    {pk \in GetForModel(ct) : fields[pk].required /\ fields[pk].name \notin Keys(data)}

\* A variant that looks for missing required fields before it looks at the items.
CleanRecordRequiredFirst(ct, data) ==
    LET bad == {i \in 1..Len(data) : ItemError(ct, data[i]) /= NoError}
        missing == MissingRequired(ct, data)
    IN  IF missing /= {}
        THEN [kind |-> "missing_required",
              name |-> fields[CHOOSE p \in missing :
                                 \A q \in missing \ {p} : Before(p, q)].name]
        ELSE IF bad /= {}
        THEN ItemError(ct, data[CHOOSE i \in bad : \A j \in bad : i <= j])
        ELSE NoError

\* CustomFieldModel.clean() of a record of type ct holding data: the first
\* error raised, or NoError.
CleanRecord(ct, data) ==
    LET bad == {i \in 1..Len(data) : ItemError(ct, data[i]) /= NoError}
        missing == MissingRequired(ct, data)
    IN  IF bad /= {}
        THEN ItemError(ct, data[CHOOSE i \in bad : \A j \in bad : i <= j])
        ELSE IF missing /= {}
        THEN [kind |-> "missing_required",
              name |-> fields[CHOOSE p \in missing :
                                 \A q \in missing \ {p} : Before(p, q)].name]
        ELSE NoError

----------------------------------------------------------------------------
(* CustomField.clean *)

SelectionTypes == {TYPE_SELECT, TYPE_MULTISELECT}

\* A variant of the immutability check that forgets the type.
CheckImmutableNameOnly(obj, pk) ==
    IF pk \in DOMAIN fields /\ obj.name /= fields[pk].name THEN "immutable_name"
    ELSE OK

\* The check of the immutable fields (if self.present_in_database: ...).
CheckImmutable(obj, pk) ==
    LET present_in_database == pk \in DOMAIN fields
    IN  IF present_in_database /\ obj.name /= fields[pk].name THEN "immutable_name"
        ELSE IF present_in_database /\ obj.type /= fields[pk].type THEN "immutable_type"
        ELSE OK

\* clean() of the field object obj with primary key pk: OK or the error raised.
FieldClean(obj, pk) ==
    LET dflt == Validate(obj, pk, obj.default)
        selection == SelectionTypes
    IN  IF CheckImmutable(obj, pk) /= OK THEN CheckImmutable(obj, pk)
        ELSE IF obj.default /= VNone /\ dflt \in ValidationErrors THEN "invalid_default"
        ELSE IF obj.default /= VNone /\ dflt = "TypeError" THEN "TypeError"
        ELSE IF obj.validation_minimum /= VNone /\ obj.type /= TYPE_INTEGER
        THEN "minimum_scope"
        ELSE IF obj.validation_maximum /= VNone /\ obj.type /= TYPE_INTEGER
        THEN "maximum_scope"
        ELSE IF obj.validation_regex /= <<>> /\ obj.type \notin {TYPE_TEXT, TYPE_URL}
        THEN "regex_scope"
        ELSE IF ChoicesOf(pk) /= {} /\ obj.type \notin selection THEN "choices_scope"
        ELSE IF /\ obj.type = TYPE_SELECT
                /\ Truthy(obj.default)
                /\ ~(obj.default.k = "str" /\ obj.default.s \in ChoiceValues(pk))
        THEN "default_not_choice"
        ELSE OK

----------------------------------------------------------------------------
(* The record of the last call. *)

\* A job handed to .delay(): delete_custom_field_data(name, cts) or
\* update_custom_field_choice_data(field, old, new).
PurgeJob(name, cts) ==
    [kind |-> "delete_custom_field_data", name |-> name, cts |-> cts,
     field |-> 0, old |-> <<>>, new |-> <<>>]
RewriteJob(field, old, new) ==
    [kind |-> "update_custom_field_choice_data", name |-> "", cts |-> {},
     field |-> field, old |-> old, new |-> new]
NoJob == [kind |-> "", name |-> "", cts |-> {}, field |-> 0, old |-> <<>>, new |-> <<>>]

\* No transaction is open (autocommit): every save() and delete() commits.
NoTxn == [open |-> FALSE, fields |-> <<>>, choices |-> <<>>, records |-> <<>>, qlen |-> 0]

\* The arguments and the result of to_form_field() when it was not called.
NoArgs == [set_initial |-> FALSE, enforce_required |-> FALSE]
NoForm == [class |-> "", required |-> FALSE, initial |-> VNone, choices |-> {}, blank |-> FALSE]

NoPre == [fields |-> <<>>, choices |-> <<>>, records |-> <<>>, queue |-> <<>>]
Snapshot == [fields |-> fields, choices |-> choices, records |-> records, queue |-> queue]

\* op: the method called; pk: the row it was called on; res: OK or the error
\* raised.  The other entries are filled by the calls that use them: ident
\* and before (the name and type of a field object, and the row stored
\* before the call), cobj and cbefore (a choice object and the row stored
\* before), present (present_in_database), v (a value), rid and data (a
\* record and the custom_field_data clean() was called on), err (the error
\* of a record's clean()), qlen (the length of the queue before the call),
\* cts (the content types associated before the call), job (the job a
\* worker ran), args and form (the arguments of to_form_field() and the form
\* field it returned), pre (the tables before a call that raised).
Call(op, pk, res) ==
    [op |-> op, pk |-> pk, res |-> res, present |-> FALSE,
     ident |-> [name |-> "", type |-> ""], before |-> NoRow, cobj |-> NoChoice, cbefore |-> NoChoice, v |-> VNone,
     rid |-> "", data |-> <<>>, err |-> NoError, qlen |-> 0, cts |-> {},
     job |-> NoJob, args |-> NoArgs, form |-> NoForm,
     pre |-> IF res = OK THEN NoPre ELSE Snapshot]

----------------------------------------------------------------------------
(* Bounds and input sets. *)

MaxInt == 6        \* integers offered to validate() are -1..MaxInt
MaxQueue == 1      \* jobs waiting at any time
MaxBag == 2        \* items of a custom_field_data offered to clean()

StrA == <<"a">>
StrB == <<"b">>
StrAB == <<"a", "b">>

ChoiceStrings == {StrA, StrB}

Ints == {VInt(i) : i \in -1..MaxInt}
Floats == {VFloat(t) : t \in {-5, 5, 10, 37, 50, 55}}
Strings ==
    {VStr(s) : s \in {<<>>, StrA, StrB, StrAB, <<"3">>, <<"7">>, <<"-", "3">>,
                      <<"3", ".", "7">>,
                      <<"2", "0", "2", "1", "-", "0", "2", "-", "2", "8">>,
                      <<"2", "0", "2", "1", "-", "2", "-", "3", "0">>}}
Lists == {VList(l) : l \in {<<>>, <<StrA>>, <<StrB>>, <<StrA, StrB>>, <<StrAB>>}}

Values == {VNone, VBool(TRUE), VBool(FALSE), VDate} \cup Ints \cup Floats \cup Strings \cup Lists

MinInputs == {VNone, VInt(1)}
MaxInputs == {VNone, VInt(5)}
RegexInputs == {<<>>, StrA}

----------------------------------------------------------------------------
(* SpecValidate: validate() as a function of the field, its choices and the *)
(* value.  Init draws the inputs: one stored field, of any type and with    *)
(* any constraints, some choices, and the value; the step calls validate(). *)

ValidateFieldInputs ==
    {FieldRow("f", type, required, VNone, vmin, vmax, regex, DefaultWeight, RecordTypes) :
        type \in FieldTypes, required \in BOOLEAN, vmin \in MinInputs,
        vmax \in MaxInputs, regex \in RegexInputs}

\* The choice table holding exactly these values for field 1.
ChoiceTable(values) ==
    IF values = {} THEN <<>>
    ELSE IF values = {StrA} THEN <<ChoiceRow(1, StrA)>>
    ELSE IF values = {StrB} THEN <<ChoiceRow(1, StrB)>>
    ELSE <<ChoiceRow(1, StrA), ChoiceRow(1, StrB)>>

InitRecords == [rid \in RecordIds |-> [ct |-> TypeOf(rid), data |-> <<>>]]

InitValidate ==
    /\ \E obj \in ValidateFieldInputs :
          /\ fields = (1 :> obj)
          /\ origin = (1 :> [name |-> obj.name, type |-> obj.type])
    /\ \E values \in SUBSET ChoiceStrings : choices = ChoiceTable(values)
    /\ records = InitRecords
    /\ queue = <<>>
    /\ txn = NoTxn
    /\ deleting = 0
    /\ \E value \in Values : last = [Call("input", 1, OK) EXCEPT !.v = value]

\* field.validate(value) on a stored field
CallValidate(pk, value) ==
    /\ pk \in DOMAIN fields
    /\ last' = [Call("validate", pk, Validate(fields[pk], pk, value)) EXCEPT !.v = value]
    /\ UNCHANGED <<fields, choices, records, queue, txn, deleting, origin>>

NextValidate == last.op = "input" /\ CallValidate(last.pk, last.v)

SpecValidate == InitValidate /\ [][NextValidate]_vars

----------------------------------------------------------------------------
(* Claims on validate(). *)

\* What the specification calls an empty value: null, "" or [].
SpecEmpty(v) == v \in {VNone, VStr(<<>>), VList(<<>>)}

\* v is integral: an integer, or a value that converts to one without loss.
Integral(v) ==
    \/ v.k \in {"int", "bool"}
    \/ v.k = "float" /\ v.n % 10 = 0
    \/ v.k = "str" /\ StrIsInt(v.s)

\* The number v stands for, in tenths.
NumberOf(v) == IF v.k = "str" THEN StrToInt(v.s) * 10 ELSE Tenths(v)

WithinBounds(f, v) ==
    /\ f.validation_minimum /= VNone => f.validation_minimum.n * 10 <= NumberOf(v)
    /\ f.validation_maximum /= VNone => NumberOf(v) <= f.validation_maximum.n * 10

ValidateCalled == last.op = "validate" /\ last.pk \in DOMAIN fields

\* C6: validate(v) of an integer field on a non-empty v succeeds if and only
\* if v is integral and lies within the bounds that are set (inclusive);
\* every other non-empty v is rejected with a validation error.
C6_IntegerIffIntegralInBounds ==
    (ValidateCalled /\ fields[last.pk].type = TYPE_INTEGER /\ ~SpecEmpty(last.v)) =>
        /\ last.res = OK <=> (Integral(last.v) /\ WithinBounds(fields[last.pk], last.v))
        /\ last.res /= OK => last.res \in ValidationErrors

\* C8: validate(v) on an empty value fails with the required-field error when
\* the field is required and succeeds when it is not, whatever the field's
\* type, constraints and choices.
C8_EmptyOnlyRequired ==
    (ValidateCalled /\ SpecEmpty(last.v)) =>
        last.res = (IF fields[last.pk].required THEN "required" ELSE OK)

\* C8 witness: [] was offered to a required integer field with both bounds
\* and a regex set, and the call raised the required-field error.
C8_Witness ==
    /\ ValidateCalled
    /\ last.v = VList(<<>>)
    /\ fields[last.pk].type = TYPE_INTEGER
    /\ fields[last.pk].required
    /\ fields[last.pk].validation_minimum /= VNone
    /\ fields[last.pk].validation_regex /= <<>>
    /\ last.res = "required"

----------------------------------------------------------------------------
(* SpecBag: CustomFieldModel.clean() as a function of the field table and  *)
(* the record's custom_field_data.  Init draws the inputs: field 1 ("f"),   *)
(* an integer field with bounds 1..5 or a select field; field 2 ("g"),     *)
(* when there is one, an integer field of type T1; the record and its      *)
(* data.  The step calls clean().                                          *)

BagField1Inputs ==
    {FieldRow("f", TYPE_INTEGER, required, VNone, VInt(1), VInt(5), <<>>, DefaultWeight, cts) :
        required \in BOOLEAN, cts \in SUBSET RecordTypes}
    \cup
    {FieldRow("f", TYPE_SELECT, required, VNone, VNone, VNone, <<>>, DefaultWeight, cts) :
        required \in BOOLEAN, cts \in SUBSET RecordTypes}

BagField2Inputs ==
    {FieldRow("g", TYPE_INTEGER, required, VNone, VNone, VNone, <<>>, weight, {"T1"}) :
        required \in BOOLEAN, weight \in {DefaultWeight - 50, DefaultWeight}}

BagValues == {VNone, VInt(3), VStr(StrA), VStr(<<"3">>)}

\* custom_field_data of at most MaxBag items with distinct keys, in any
\* order of insertion
BagInputs ==
    UNION {{data \in [1..n -> {Item(key, val) : key \in Names, val \in BagValues}] :
               \A i, j \in 1..n : i /= j => data[i].key /= data[j].key} :
           n \in 0..MaxBag}

InitBag ==
    /\ \E f1 \in BagField1Inputs :
          \/ /\ fields = (1 :> f1)
             /\ origin = (1 :> [name |-> f1.name, type |-> f1.type])
          \/ \E f2 \in BagField2Inputs :
                /\ fields = (1 :> f1) @@ (2 :> f2)
                /\ origin = (1 :> [name |-> f1.name, type |-> f1.type])
                              @@ (2 :> [name |-> f2.name, type |-> f2.type])
    /\ choices = ChoiceTable({StrA})
    /\ records = InitRecords
    /\ queue = <<>>
    /\ txn = NoTxn
    /\ deleting = 0
    /\ \E rid \in RecordIds, data \in BagInputs :
          last = [Call("input", 0, OK) EXCEPT !.rid = rid, !.data = data]

\* record.clean() with data as the record's custom_field_data
CallClean(rid, data) ==
    LET err == CleanRecord(records[rid].ct, data)
    IN  /\ last' = [Call("record_clean", 0, err.kind) EXCEPT
                        !.rid = rid, !.data = data, !.err = err]
        /\ UNCHANGED <<fields, choices, records, queue, txn, deleting, origin>>

NextBag == last.op = "input" /\ CallClean(last.rid, last.data)

SpecBag == InitBag /\ [][NextBag]_vars

----------------------------------------------------------------------------
(* Claims on CustomFieldModel.clean(). *)

CleanCalled == last.op = "record_clean"

\* The fields applicable to the type of the record clean() was called on.
Applicable ==
    {pk \in DOMAIN fields : TypeOf(last.rid) \in fields[pk].content_types}

UnknownKeys == {key \in Keys(last.data) : \A pk \in Applicable : fields[pk].name /= key}

InvalidItems ==
    {i \in 1..Len(last.data) :
        \E pk \in Applicable :
            /\ fields[pk].name = last.data[i].key
            /\ Validate(fields[pk], pk, last.data[i].val) /= OK}

MissingFields ==
    {pk \in Applicable : fields[pk].required /\ fields[pk].name \notin Keys(last.data)}

\* The errors one call reports: the one it raised.
Reported == {last.err} \ {NoError}

OneUnknownOneMissing ==
    CleanCalled /\ Cardinality(UnknownKeys) = 1 /\ Cardinality(MissingFields) = 1

C5_CleanIffThreeConditions ==
    CleanCalled =>
        /\ last.res = OK <=>
              (UnknownKeys = {} /\ InvalidItems = {} /\ MissingFields = {})
        /\ \A pk \in MissingFields :
              ( /\ UnknownKeys = {} /\ InvalidItems = {} /\ MissingFields = {pk}
                /\ fields[pk].type = TYPE_INTEGER
                /\ fields[pk].validation_minimum = VInt(1)
                /\ fields[pk].validation_maximum = VInt(5) )
              => ( /\ Reported = {last.err}
                   /\ last.err = [kind |-> "missing_required", name |-> fields[pk].name] )

\* C5 witness: a record of type T1 without the key of the required integer
\* field 1..5 (and with a valid value for the other field) was validated
\* and the missing-required error for that field raised.
C5_Witness ==
    /\ CleanCalled
    /\ MissingFields = {1}
    /\ fields[1].type = TYPE_INTEGER
    /\ Len(last.data) = 1
    /\ UnknownKeys = {} /\ InvalidItems = {}
    /\ last.err = [kind |-> "missing_required", name |-> "f"]

----------------------------------------------------------------------------
(* The operations. *)

\* The table t with row pk put (or replaced) / removed.
Put(t, pk, row) == [q \in DOMAIN t \cup {pk} |-> IF q = pk THEN row ELSE t[q]]
Drop(t, pks) == [q \in DOMAIN t \ pks |-> t[q]]

\* A field object is created (a pk never used before) or an edited copy of a
\* stored one is saved: full_clean(), which runs clean() and the uniqueness
\* of name, then save() with its content_types.
SaveField(pk, obj) ==
    LET present == pk \in DOMAIN fields
        cleaned == FieldClean(obj, pk)
        res == IF cleaned /= OK THEN cleaned
               ELSE IF \E q \in DOMAIN fields \ {pk} : fields[q].name = obj.name
               THEN "unique_name"
               ELSE OK
    IN  /\ present \/ pk \notin DOMAIN origin
        /\ IF res = OK
           THEN /\ fields' = Put(fields, pk, obj)
                /\ origin' = IF present THEN origin
                             ELSE Put(origin, pk, [name |-> obj.name, type |-> obj.type])
           ELSE UNCHANGED <<fields, origin>>
        /\ last' = [Call("field_save", pk, res) EXCEPT
                        !.present = present,
                        !.ident = [name |-> obj.name, type |-> obj.type],
                        !.before = IF present THEN fields[pk] ELSE NoRow]
        /\ UNCHANGED <<choices, records, queue, txn, deleting>>

\* self.content_types.values_list("pk", flat=True), read from the table t:
\* the association is gone with the row.
ContentTypesOf(pk, t) == IF pk \in DOMAIN t THEN t[pk].content_types ELSE {}

\* super().delete(): the row goes, and with it (on_delete=CASCADE) its choices.
FieldsAfterDelete(pk) == Drop(fields, {pk})
ChoicesAfterDelete(pk) == Drop(choices, ChoicesOf(pk))

\* A variant that reads the content types after the row was removed.
DeletePayloadAfterRemoval(pk) ==
    PurgeJob(fields[pk].name, ContentTypesOf(pk, FieldsAfterDelete(pk)))

\* What CustomField.delete hands to delete_custom_field_data.delay: the name
\* and the content types read before super().delete().
DeletePayload(pk) == PurgeJob(fields[pk].name, ContentTypesOf(pk, fields))

\* CustomField.delete()
DeleteField(pk) ==
    /\ pk \in DOMAIN fields
    /\ Len(queue) < MaxQueue
    /\ fields' = FieldsAfterDelete(pk)
    /\ choices' = ChoicesAfterDelete(pk)
    /\ queue' = Append(queue, DeletePayload(pk))
    /\ last' = [Call("field_delete", pk, OK) EXCEPT
                    !.before = fields[pk], !.cts = fields[pk].content_types,
                    !.qlen = Len(queue)]
    /\ UNCHANGED <<records, txn, deleting, origin>>

\* A record is saved with data as its custom_field_data: clean(), then save().
SaveRecord(rid, data) ==
    LET err == CleanRecord(records[rid].ct, data)
    IN  /\ records' = IF err = NoError THEN [records EXCEPT ![rid].data = data]
                      ELSE records
        /\ last' = [Call("record_save", 0, err.kind) EXCEPT !.rid = rid, !.err = err]
        /\ UNCHANGED <<fields, choices, queue, txn, deleting, origin>>

----------------------------------------------------------------------------
(* The background jobs (nautobot.extras.tasks), run by a worker. *)

\* delete_custom_field_data(name, cts): the key goes from every record of
\* the given types.
PurgeField(job) ==
    [rid \in DOMAIN records |->
        IF records[rid].ct \in job.cts
        THEN [records[rid] EXCEPT
                 !.data = SelectSeq(records[rid].data, LAMBDA it : it.key /= job.name)]
        ELSE records[rid]]

\* One stored value with old replaced by new: the value itself for a select
\* field, the elements of the list for a multi-select field.
Rewritten(type, val, old, new) ==
    IF type = TYPE_SELECT
    THEN (IF val = VStr(old) THEN VStr(new) ELSE val)
    ELSE IF val.k = "list"
    THEN VList([i \in 1..Len(val.l) |-> IF val.l[i] = old THEN new ELSE val.l[i]])
    ELSE val

\* update_custom_field_choice_data(field, old, new): every record of every
\* type the field applies to gets old replaced by new under the field's name.
RenameChoiceValue(job) ==
    IF job.field \notin DOMAIN fields THEN records
    ELSE LET f == fields[job.field]
         IN  [rid \in DOMAIN records |->
                 IF records[rid].ct \in f.content_types
                 THEN [records[rid] EXCEPT
                          !.data = [i \in 1..Len(records[rid].data) |->
                                      IF records[rid].data[i].key = f.name
                                      THEN Item(f.name,
                                                Rewritten(f.type, records[rid].data[i].val,
                                                          job.old, job.new))
                                      ELSE records[rid].data[i]]]
                 ELSE records[rid]]

\* A worker takes a job (in no particular order) and runs it to completion.
RunJob(i) ==
    /\ i \in 1..Len(queue)
    /\ records' = IF queue[i].kind = "delete_custom_field_data"
                  THEN PurgeField(queue[i]) ELSE RenameChoiceValue(queue[i])
    /\ queue' = SubSeq(queue, 1, i - 1) \o SubSeq(queue, i + 1, Len(queue))
    /\ last' = [Call("run_job", 0, OK) EXCEPT !.job = queue[i]]
    /\ UNCHANGED <<fields, choices, txn, deleting, origin>>

----------------------------------------------------------------------------
(* CustomFieldChoice *)

\* A variant that accepts a choice for a field of any type.
ChoiceCleanAnyType(cobj) == OK

\* CustomFieldChoice.clean()
ChoiceClean(cobj) ==
    IF fields[cobj.field].type \notin SelectionTypes THEN "not_selection" ELSE OK

\* A variant that compares the value with the object being saved itself.
SaveJobsInMemory(cpk, cobj) ==
    LET database_object == cobj
    IN  IF cobj.value /= database_object.value
        THEN <<RewriteJob(cobj.field, database_object.value, cobj.value)>>
        ELSE <<>>

\* A variant that hands the two values over in the opposite order.
SaveJobsSwapped(cpk, cobj) ==
    LET present_in_database == cpk \in DOMAIN choices
        database_object == IF present_in_database THEN choices[cpk] ELSE cobj
    IN  IF cobj.value /= database_object.value
        THEN <<RewriteJob(cobj.field, cobj.value, database_object.value)>>
        ELSE <<>>

\* The jobs CustomFieldChoice.save() enqueues after super().save(): none, or
\* one rewrite from the value read from the database before the save.
SaveJobs(cpk, cobj) ==
    LET present_in_database == cpk \in DOMAIN choices
        database_object == IF present_in_database THEN choices[cpk] ELSE cobj
    IN  IF cobj.value /= database_object.value
        THEN <<RewriteJob(cobj.field, database_object.value, cobj.value)>>
        ELSE <<>>

\* A choice object is created or an edited copy of a stored one is saved:
\* full_clean(), which runs clean() and unique_together, then save().
SaveChoice(cpk, cobj) ==
    LET present == cpk \in DOMAIN choices
        cleaned == ChoiceClean(cobj)
        res == IF cleaned /= OK THEN cleaned
               ELSE IF \E c \in DOMAIN choices \ {cpk} : choices[c] = cobj
               THEN "unique_together"
               ELSE OK
    IN  /\ cobj.field \in DOMAIN fields
        /\ Len(queue) + Len(SaveJobs(cpk, cobj)) <= MaxQueue
        /\ IF res = OK
           THEN /\ choices' = Put(choices, cpk, cobj)
                /\ queue' = queue \o SaveJobs(cpk, cobj)
           ELSE UNCHANGED <<choices, queue>>
        /\ last' = [Call("choice_save", cpk, res) EXCEPT
                        !.present = present, !.cobj = cobj,
                        !.cbefore = IF present THEN choices[cpk] ELSE NoChoice,
                        !.qlen = Len(queue)]
        /\ UNCHANGED <<fields, records, txn, deleting, origin>>

\* value in container
PyContains(container, value) ==
    IF container.k = "str" THEN IsSubstring(value, container.s)
    ELSE value \in Range(container.l)

\* A variant of the default check that looks at a select field only.
DefaultCheckSelectOnly(f, value) ==
    IF Truthy(f.default) /\ f.type = TYPE_SELECT /\ PyEq(f.default, VStr(value))
    THEN "protected_default"
    ELSE OK

\* The first part of CustomFieldChoice.delete (if self.field.default: ...).
DefaultCheck(f, value) ==
    IF ~Truthy(f.default) THEN OK
    ELSE IF f.type = TYPE_SELECT /\ PyEq(f.default, VStr(value)) THEN "protected_default"
    ELSE IF ~Iterable(f.default) THEN "TypeError"
    ELSE IF PyContains(f.default, value) THEN "protected_default"
    ELSE OK

\* custom_field_data__<name>=value / custom_field_data__<name>__contains=value
Matches(type, val, value) ==
    IF type = TYPE_SELECT THEN val = VStr(value)
    ELSE val = VStr(value) \/ (val.k = "list" /\ value \in Range(val.l))

\* model.objects.filter(...).exists() for the records of one content type
UsedIn(f, value, ct) ==
    \E rid \in DOMAIN records :
        /\ records[rid].ct = ct
        /\ \E i \in 1..Len(records[rid].data) :
              /\ records[rid].data[i].key = f.name
              /\ Matches(f.type, records[rid].data[i].val, value)

\* A variant of the scan that stops after one content type.
InActiveUseFirstType(f, value) ==
    /\ f.content_types /= {}
    /\ UsedIn(f, value, CHOOSE ct \in f.content_types : TRUE)

\* The scan: for ct in self.field.content_types.all(): ...
InActiveUse(f, value) == \E ct \in f.content_types : UsedIn(f, value, ct)

\* What CustomFieldChoice.delete() raises before super().delete(), or OK.
ChoiceDeleteCheck(cpk) ==
    LET f == fields[choices[cpk].field]
        value == choices[cpk].value
    IN  IF DefaultCheck(f, value) /= OK THEN DefaultCheck(f, value)
        ELSE IF InActiveUse(f, value) THEN "protected_in_use"
        ELSE OK

\* CustomFieldChoice.delete()
DeleteChoice(cpk) ==
    LET res == ChoiceDeleteCheck(cpk)
    IN  /\ cpk \in DOMAIN choices
        /\ choices' = IF res = OK THEN Drop(choices, {cpk}) ELSE choices
        /\ last' = [Call("choice_delete", cpk, res) EXCEPT !.cbefore = choices[cpk]]
        /\ UNCHANGED <<fields, records, queue, txn, deleting, origin>>

----------------------------------------------------------------------------
(* SpecField: the life of field definitions.  Integer and text fields are  *)
(* created, edited and deleted; records store values under their names;    *)
(* a worker runs the purge jobs.                                           *)

FieldPks == {1, 2}

EmptyInit ==
    /\ fields = <<>>
    /\ choices = <<>>
    /\ records = InitRecords
    /\ queue = <<>>
    /\ txn = NoTxn
    /\ deleting = 0
    /\ origin = <<>>
    /\ last = Call("init", 0, OK)

FieldInputs ==
    {FieldRow(name, type, FALSE, VNone, VNone, VNone, <<>>, DefaultWeight, cts) :
        name \in {"f", "g"}, type \in {TYPE_INTEGER, TYPE_TEXT},
        cts \in {{"T1"}, RecordTypes}}

FieldBagInputs ==
    {<<>>} \cup {<<Item(key, VInt(3))>> : key \in {"f", "g"}}

NextField ==
    \/ \E pk \in FieldPks, obj \in FieldInputs : SaveField(pk, obj)
    \/ \E pk \in FieldPks : DeleteField(pk)
    \/ \E rid \in RecordIds, data \in FieldBagInputs : SaveRecord(rid, data)
    \/ \E i \in 1..MaxQueue : RunJob(i)

SpecField == EmptyInit /\ [][NextField]_vars

----------------------------------------------------------------------------
(* Claims on the life of a field definition. *)

\* An edited copy of a stored field was offered with another name or type.
EditChangedIdentity ==
    /\ last.op = "field_save"
    /\ last.present
    /\ (last.ident.name /= last.before.name \/ last.ident.type /= last.before.type)

\* C1: clean() on an edited copy whose name or type differs from the stored
\* record fails with the immutable-field error and the stored definition is
\* unchanged; so every stored field has the name and type it was created
\* with.
C1_NameAndTypeImmutable ==
    /\ EditChangedIdentity =>
          /\ last.res \in {"immutable_name", "immutable_type"}
          /\ last.pk \in DOMAIN fields
          /\ fields[last.pk] = last.before
          /\ last.pre = Snapshot
    /\ \A pk \in DOMAIN fields :
          /\ fields[pk].name = origin[pk].name
          /\ fields[pk].type = origin[pk].type

\* C1 witness: an edit that kept the name and changed only the type of a
\* stored field was refused.
C1_Witness ==
    /\ EditChangedIdentity
    /\ last.ident.name = last.before.name
    /\ last.res = "immutable_type"

\* C10: delete() reads the content types of the field, removes the row and
\* enqueues one purge job {name, the content types read}: the set enqueued
\* is the one the field applied to just before the row was removed; and a
\* purge job that has run leaves the name in no record of the job's types.
C10_DeleteCapturesThenEnqueues ==
    /\ last.op = "field_delete" =>
          /\ last.pk \notin DOMAIN fields
          /\ Len(queue) = last.qlen + 1
          /\ queue[Len(queue)] = PurgeJob(last.before.name, last.before.content_types)
          /\ queue[Len(queue)].cts = last.cts
    /\ (last.op = "run_job" /\ last.job.kind = "delete_custom_field_data") =>
          \A rid \in DOMAIN records :
              records[rid].ct \in last.job.cts => last.job.name \notin Keys(records[rid].data)

\* C10 witness: a field of both record types was deleted while a record
\* stored a value for it, and the job enqueued names both types.
C10_Witness ==
    /\ last.op = "field_delete"
    /\ last.cts = RecordTypes
    /\ \E rid \in DOMAIN records : last.before.name \in Keys(records[rid].data)
    /\ queue[Len(queue)].cts = RecordTypes

----------------------------------------------------------------------------
(* Spec: the life of a selection field and its choices.  A select or       *)
(* multi-select field "f" is created and edited (its default, its content  *)
(* types); choices are created, renamed and deleted; records store values  *)
(* under "f"; validate() is called; a worker runs the jobs.                *)

ChoicePks == {1, 2}

SelectionDefaults == {VNone, VStr(StrA), VList(<<StrA>>)}

SelectionFieldInputs ==
    {FieldRow("f", type, FALSE, default, VNone, VNone, <<>>, DefaultWeight, cts) :
        type \in SelectionTypes, default \in SelectionDefaults,
        cts \in {{"T2"}, RecordTypes}}

SelectionValues == {VStr(StrA), VList(<<StrA, StrB>>)}

SelectionBagInputs == {<<>>} \cup {<<Item("f", val)>> : val \in SelectionValues}

ChoiceInputs == {ChoiceRow(1, value) : value \in ChoiceStrings}

Init == EmptyInit

Next ==
    \/ \E obj \in SelectionFieldInputs : SaveField(1, obj)
    \/ DeleteField(1)
    \/ \E cpk \in ChoicePks, cobj \in ChoiceInputs : SaveChoice(cpk, cobj)
    \/ \E cpk \in ChoicePks : DeleteChoice(cpk)
    \/ \E rid \in RecordIds, data \in SelectionBagInputs : SaveRecord(rid, data)
    \/ \E value \in SelectionValues \cup {VStr(StrB)} : CallValidate(1, value)
    \/ \E i \in 1..MaxQueue : RunJob(i)

Spec == Init /\ [][Next]_vars

----------------------------------------------------------------------------
(* Claims on choices. *)

ChoiceDeleteCalled ==
    /\ last.op = "choice_delete"
    /\ last.cbefore.field \in DOMAIN fields

\* The field that owns the choice delete() was called on, and the value.
Owner == fields[last.cbefore.field]
Doomed == last.cbefore.value

\* The value is the select field's default or in the multi-select field's
\* default list.
IsDefault ==
    \/ Owner.type = TYPE_SELECT /\ Owner.default = VStr(Doomed)
    \/ /\ Owner.type = TYPE_MULTISELECT
       /\ Owner.default.k = "list"
       /\ \E i \in 1..Len(Owner.default.l) : Owner.default.l[i] = Doomed

\* Some record of a type the field applies to stores the value under the
\* field's name.
IsStored ==
    \E rid \in DOMAIN records :
        /\ records[rid].ct \in Owner.content_types
        /\ \E i \in 1..Len(records[rid].data) :
              /\ records[rid].data[i].key = Owner.name
              /\ \/ Owner.type = TYPE_SELECT /\ records[rid].data[i].val = VStr(Doomed)
                 \/ /\ Owner.type = TYPE_MULTISELECT
                    /\ records[rid].data[i].val.k = "list"
                    /\ \E j \in 1..Len(records[rid].data[i].val.l) :
                          records[rid].data[i].val.l[j] = Doomed

\* The delete raised and nothing changed: the entry is still stored.
Refused ==
    /\ last.res \in {"protected_default", "protected_in_use"}
    /\ last.pk \in DOMAIN choices
    /\ choices[last.pk] = last.cbefore
    /\ last.pre = Snapshot

\* C2: delete() on a choice whose value is the select field's default, or in
\* the multi-select field's default list, raises the is-default protection
\* error and deletes nothing: the entry, the field and the records are as
\* before.
C2_DefaultChoiceProtected ==
    (ChoiceDeleteCalled /\ IsDefault) => (Refused /\ last.res = "protected_default")

\* C2 witness: the delete of a choice in a multi-select field's default list
\* was refused.
C2_Witness ==
    /\ ChoiceDeleteCalled
    /\ IsDefault
    /\ Owner.type = TYPE_MULTISELECT
    /\ Cardinality(DOMAIN choices) = 2
    /\ last.res = "protected_default"

CurrentValues ==
    {choices[c].value : c \in {d \in DOMAIN choices : choices[d].field = last.pk}}

\* C7: validate(v) on a non-empty v succeeds, for a select field, if and
\* only if v is one of the values of the field's choices as stored at the
\* call, and for a multi-select field and a list v if and only if every
\* element of v is one of them.
C7_MembershipInCurrentChoices ==
    (ValidateCalled /\ ~SpecEmpty(last.v)) =>
        /\ fields[last.pk].type = TYPE_SELECT =>
              /\ last.res = OK <=> (last.v.k = "str" /\ last.v.s \in CurrentValues)
              /\ last.res \in {OK, "invalid_choice"}
        /\ (fields[last.pk].type = TYPE_MULTISELECT /\ last.v.k = "list") =>
              /\ last.res = OK <=>
                    \A i \in 1..Len(last.v.l) : last.v.l[i] \in CurrentValues
              /\ last.res \in {OK, "invalid_choice"}

\* C7 witness: a record still stores "a", accepted when it was saved, and
\* validate("a") now fails because the choice was renamed since.
C7_Witness ==
    /\ ValidateCalled
    /\ fields[last.pk].type = TYPE_SELECT
    /\ last.v = VStr(StrA)
    /\ last.res = "invalid_choice"
    /\ CurrentValues = {StrB}
    /\ \E rid \in DOMAIN records : records[rid].data = <<Item("f", VStr(StrA))>>

\* C9: save() of a choice enqueues a rewrite job if and only if the choice
\* was stored before and the value saved differs from the value stored
\* before; the job is in the queue once the new value is stored and carries
\* the field's pk, the value stored before and the new value.  A save that
\* creates a choice, keeps the value or raises enqueues nothing.
C9_RewriteJobIffValueChanged ==
    last.op = "choice_save" =>
        /\ Len(queue) \in {last.qlen, last.qlen + 1}
        /\ last.res /= OK => queue = last.pre.queue
        /\ last.res = OK =>
              /\ Len(queue) = last.qlen + 1 <=>
                    (last.present /\ last.cobj.value /= last.cbefore.value)
              /\ Len(queue) = last.qlen + 1 =>
                    /\ queue[Len(queue)] =
                          [kind |-> "update_custom_field_choice_data", name |-> "",
                           cts |-> {}, field |-> last.cobj.field,
                           old |-> last.cbefore.value, new |-> last.cobj.value]
                    /\ last.pk \in DOMAIN choices
                    /\ choices[last.pk].value = last.cobj.value

\* C9 witness: a stored choice "a" was saved as "b" and the job is queued.
C9_Witness ==
    /\ last.op = "choice_save"
    /\ last.res = OK
    /\ last.present
    /\ last.cbefore.value = StrA
    /\ last.cobj.value = StrB
    /\ Len(queue) = last.qlen + 1

----------------------------------------------------------------------------
(* SpecRename: a choice of a select field is renamed while records store   *)
(* its value.  The field "f" has the choices "prod" and "stage"; records   *)
(* are saved with "stage"; the second choice is saved as "staging" (or     *)
(* back); a worker runs the rewrite jobs.                                  *)

StrProd == <<"p", "r", "o", "d">>
StrStage == <<"s", "t", "a", "g", "e">>
StrStaging == <<"s", "t", "a", "g", "i", "n", "g">>

RenameFieldInputs ==
    {FieldRow("f", TYPE_SELECT, FALSE, VNone, VNone, VNone, <<>>, DefaultWeight, cts) :
        cts \in {{"T1"}, RecordTypes}}

RenameChoiceInputs == {ChoiceRow(1, value) : value \in {StrProd, StrStage, StrStaging}}

RenameBagInputs == {<<>>, <<Item("f", VStr(StrStage))>>}

NextRename ==
    \/ \E obj \in RenameFieldInputs : SaveField(1, obj)
    \/ \E cpk \in ChoicePks, cobj \in RenameChoiceInputs : SaveChoice(cpk, cobj)
    \/ \E rid \in RecordIds, data \in RenameBagInputs : SaveRecord(rid, data)
    \/ \E i \in 1..MaxQueue : RunJob(i)

SpecRename == EmptyInit /\ [][NextRename]_vars

\* The last call was a save() that changed the value of a stored choice.
JustRenamed ==
    /\ last.op = "choice_save"
    /\ last.res = OK
    /\ last.present
    /\ last.cobj.value /= last.cbefore.value

\* The record is of a type the renamed choice's field applies to and stores
\* value under the field's name in data.
Holds(rid, data, value) ==
    /\ records[rid].ct \in fields[last.cobj.field].content_types
    /\ \E i \in 1..Len(data) :
          data[i] = Item(fields[last.cobj.field].name, VStr(value))

\* Between the rename and the job: clean() of a record that stores the old
\* value raises the invalid-value error for the field.
RenameWindow ==
    JustRenamed =>
        \A rid \in DOMAIN records :
            Holds(rid, records[rid].data, last.cbefore.value) =>
                CleanRecord(records[rid].ct, records[rid].data) =
                    [kind |-> "invalid_value", name |-> fields[last.cobj.field].name]

\* The step after the rename runs the job the rename enqueued: every record
\* that stored the old value stores the new one, and its clean() succeeds.
RenameThenRun ==
    (JustRenamed /\ Len(queue) > 0 /\ last'.op = "run_job"
        /\ last'.job = queue[Len(queue)] /\ Len(queue') = last.qlen) =>
        \A rid \in DOMAIN records :
            Holds(rid, records[rid].data, last.cbefore.value) =>
                /\ Holds(rid, records'[rid].data, last.cobj.value)
                /\ ~Holds(rid, records'[rid].data, last.cbefore.value)
                /\ CleanRecord(records[rid].ct, records'[rid].data) = NoError

\* C11: right after a save() that renamed a choice of a select field, clean()
\* of every record that stores the old value raises the invalid-value error;
\* and when the next step is the worker running the job that save()
\* enqueued, every such record stores the new value instead and its clean()
\* succeeds.
C11_RenameThenRewrite == []RenameWindow /\ [][RenameThenRun]_vars

\* C11 witness: "stage" was renamed to "staging" while a record stored
\* "stage" (records are only ever saved with "stage"), the job ran, and the
\* record now stores "staging", which is valid.
C11_Witness ==
    /\ last.op = "run_job"
    /\ last.job = RewriteJob(1, StrStage, StrStaging)
    /\ records["r2"].data = <<Item("f", VStr(StrStaging))>>
    /\ 1 \in DOMAIN fields
    /\ CleanRecord("T2", records["r2"].data) = NoError

----------------------------------------------------------------------------
(* SpecTxn: the request runs its save() and delete() calls inside an       *)
(* enclosing transaction (inTransaction(fn)), or outside one.  The tables  *)
(* belong to the store and are restored when the transaction is rolled     *)
(* back; the queue is not part of the store.  No worker runs here, so the  *)
(* queue only grows and its length tells what was enqueued since a point.  *)

\* The request opens a transaction: the store remembers the tables.
Begin ==
    /\ ~txn.open
    /\ txn' = [open |-> TRUE, fields |-> fields, choices |-> choices,
               records |-> records, qlen |-> Len(queue)]
    /\ UNCHANGED <<fields, choices, records, queue, deleting, origin, last>>

\* The transaction commits: what was written stays.
Commit ==
    /\ txn.open
    /\ txn' = NoTxn
    /\ last' = [Call("commit", 0, OK) EXCEPT !.qlen = txn.qlen]
    /\ UNCHANGED <<fields, choices, records, queue, deleting, origin>>

\* The transaction is rolled back (an exception after the calls returned):
\* the tables are as they were at Begin.  Nothing takes a job handed to
\* .delay() back out of the queue.
Rollback ==
    /\ txn.open
    /\ fields' = txn.fields
    /\ choices' = txn.choices
    /\ records' = txn.records
    /\ txn' = NoTxn
    /\ last' = [Call("rollback", 0, OK) EXCEPT !.qlen = txn.qlen]
    /\ UNCHANGED <<queue, deleting, origin>>

TxnFieldInputs ==
    {FieldRow("f", TYPE_SELECT, FALSE, VNone, VNone, VNone, <<>>, DefaultWeight, RecordTypes)}

NextTxn ==
    \/ \E obj \in TxnFieldInputs : SaveField(1, obj)
    \/ DeleteField(1)
    \/ \E cpk \in ChoicePks, cobj \in ChoiceInputs : SaveChoice(cpk, cobj)
    \/ Begin
    \/ Commit
    \/ Rollback

SpecTxn == EmptyInit /\ [][NextTxn]_vars

\* C12: no job is in the queue for a field deletion or a choice rename that
\* is not committed: while a transaction is open the queue holds nothing the
\* transaction's calls enqueued, after a rollback it holds nothing they
\* enqueued either, and a save() that raised enqueued nothing.
C12_EnqueueOnlyAfterCommit ==
    /\ txn.open => Len(queue) = txn.qlen
    /\ last.op = "rollback" => Len(queue) = last.qlen
    /\ (last.op \in {"field_save", "choice_save"} /\ last.res /= OK) =>
          queue = last.pre.queue

----------------------------------------------------------------------------
(* SpecRace: delete() of a choice as the two steps it is made of, the      *)
(* checks (the default, then the scan of the records) and super().delete(),*)
(* with the requests of other users between them.  Nothing in delete()     *)
(* holds a lock or a transaction over the two.                             *)

\* delete() up to super().delete(): the checks raise, or the call goes on.
DeleteChoiceCheck(cpk) ==
    LET res == ChoiceDeleteCheck(cpk)
    IN  /\ deleting = 0
        /\ cpk \in DOMAIN choices
        /\ IF res = OK
           THEN deleting' = cpk /\ UNCHANGED last
           ELSE /\ last' = [Call("choice_delete", cpk, res) EXCEPT !.cbefore = choices[cpk]]
                /\ UNCHANGED deleting
        /\ UNCHANGED <<fields, choices, records, queue, txn, origin>>

\* super().delete() of the call that passed its checks
DeleteChoiceSuper ==
    /\ deleting \in DOMAIN choices
    /\ choices' = Drop(choices, {deleting})
    /\ deleting' = 0
    /\ last' = [Call("choice_delete", deleting, OK) EXCEPT !.cbefore = choices[deleting]]
    /\ UNCHANGED <<fields, records, queue, txn, origin>>

RaceFieldInputs ==
    {FieldRow("f", type, FALSE, VNone, VNone, VNone, <<>>, DefaultWeight, cts) :
        type \in SelectionTypes, cts \in {{"T2"}, RecordTypes}}

\* The schema is edited while no delete() is under way; records are saved
\* at any time.
NextRace ==
    \/ deleting = 0 /\ \E obj \in RaceFieldInputs : SaveField(1, obj)
    \/ deleting = 0 /\ \E cpk \in ChoicePks, cobj \in ChoiceInputs : SaveChoice(cpk, cobj)
    \/ \E rid \in RecordIds, data \in SelectionBagInputs : SaveRecord(rid, data)
    \/ \E cpk \in ChoicePks : DeleteChoiceCheck(cpk)
    \/ DeleteChoiceSuper

SpecRace == EmptyInit /\ [][NextRace]_vars

\* C13: when delete() of a choice has completed and removed the entry, no
\* record of a type the field applies to stores the entry's value under the
\* field's name, whatever other requests did while delete() ran.
C13_DeleteSerialized ==
    (ChoiceDeleteCalled /\ last.res = OK /\ last.pk \notin DOMAIN choices) => ~IsStored

----------------------------------------------------------------------------
(* Claims on the default of a selection field (under Spec). *)

\* The default of the stored field pk passes validate() and is the value of
\* one of the field's choices.
DefaultIsChoice(pk) ==
    /\ Validate(fields[pk], pk, fields[pk].default) = OK
    /\ fields[pk].default.k = "str"
    /\ fields[pk].default.s \in ChoiceValues(pk)

\* The field object may be saved as field 1 as far as its name and type go.
Savable(obj) == 1 \in DOMAIN fields => obj.type = fields[1].type

\* C14: in every state the default of a stored select field, if set, passes
\* the field's validate() and is the value of one of its current choices;
\* and clean() of a field object raises the invalid-default error when its
\* default fails validate() or, for a select field, is not such a value.
C14_SelectDefaultIsChoice ==
    /\ \A pk \in DOMAIN fields :
          (fields[pk].type = TYPE_SELECT /\ fields[pk].default /= VNone) =>
              DefaultIsChoice(pk)
    /\ \A obj \in SelectionFieldInputs :
          (/\ Savable(obj)
           /\ obj.default /= VNone
           /\ \/ Validate(obj, 1, obj.default) /= OK
              \/ obj.type = TYPE_SELECT
                 /\ ~(obj.default.k = "str" /\ obj.default.s \in ChoiceValues(1))) =>
              FieldClean(obj, 1) \in {"invalid_default", "default_not_choice"}

----------------------------------------------------------------------------
(* CustomField.to_form_field *)

\* self.choices.filter(value=self.default): the choices of the field whose
\* value is the default.
DefaultChoices(f, pk) ==
    {c \in ChoicesOf(pk) : f.default.k = "str" /\ choices[c].value = f.default.s}

\* A variant that does what the comment in the source says: the initial
\* value of a selection field is its first available choice.
ToFormFieldFirstChoice(f, pk, set_initial, enforce_required) ==
    LET initial == IF set_initial THEN f.default ELSE VNone
        required == IF enforce_required THEN f.required ELSE FALSE
        mine == ChoicesOf(pk)
    IN  IF f.type \notin SelectionTypes
        THEN [class |-> f.type, required |-> required, initial |-> initial,
              choices |-> {}, blank |-> FALSE]
        ELSE [class |-> f.type, required |-> required,
              initial |-> IF set_initial /\ mine /= {}
                          THEN VStr(choices[CHOOSE c \in mine : \A d \in mine : c <= d].value)
                          ELSE initial,
              choices |-> ChoiceValues(pk),
              blank |-> ~required \/ DefaultChoices(f, pk) = {}]

\* to_form_field(set_initial, enforce_required): the class of the form field
\* (one per type), its required and initial arguments and, for a selection
\* field, its choices and whether the blank choice was added.
ToFormField(f, pk, set_initial, enforce_required) ==
    LET initial == IF set_initial THEN f.default ELSE VNone
        required == IF enforce_required THEN f.required ELSE FALSE
        default_choice == DefaultChoices(f, pk)
    IN  IF f.type \notin SelectionTypes
        THEN [class |-> f.type, required |-> required, initial |-> initial,
              choices |-> {}, blank |-> FALSE]
        ELSE [class |-> f.type, required |-> required,
              initial |-> IF set_initial /\ default_choice /= {}
                          THEN VStr(choices[CHOOSE c \in default_choice : TRUE].value)
                          ELSE initial,
              choices |-> ChoiceValues(pk),
              blank |-> ~required \/ default_choice = {}]

\* field.to_form_field(set_initial=..., enforce_required=...) on a stored field
CallToFormField(pk, set_initial, enforce_required) ==
    /\ pk \in DOMAIN fields
    /\ last' = [Call("to_form_field", pk, OK) EXCEPT
                    !.args = [set_initial |-> set_initial,
                              enforce_required |-> enforce_required],
                    !.form = ToFormField(fields[pk], pk, set_initial, enforce_required)]
    /\ UNCHANGED <<fields, choices, records, queue, txn, deleting, origin>>

----------------------------------------------------------------------------
(* SpecForm: to_form_field() as a function of the field, its choices and   *)
(* its arguments.  Init draws one stored field whose clean() passes with   *)
(* the choices drawn, and the arguments; the step calls to_form_field().   *)

DateString == <<"2", "0", "2", "1", "-", "0", "2", "-", "2", "8">>

FormDefaults ==
    {VNone, VInt(3), VBool(TRUE), VStr(StrA), VStr(StrB), VStr(DateString),
     VList(<<StrA>>), VList(<<StrB, StrA>>)}

FormFieldInputs ==
    {FieldRow("f", type, required, default, vmin, vmax, regex, DefaultWeight, RecordTypes) :
        type \in FieldTypes, required \in BOOLEAN, default \in FormDefaults,
        vmin \in MinInputs, vmax \in MaxInputs, regex \in RegexInputs}

InitForm ==
    /\ \E values \in SUBSET ChoiceStrings : choices = ChoiceTable(values)
    /\ \E obj \in FormFieldInputs :
          /\ fields = (1 :> obj)
          /\ origin = (1 :> [name |-> obj.name, type |-> obj.type])
          /\ FieldClean(obj, 1) = OK
    /\ records = InitRecords
    /\ queue = <<>>
    /\ txn = NoTxn
    /\ deleting = 0
    /\ \E set_initial \in BOOLEAN, enforce_required \in BOOLEAN :
          last = [Call("input", 1, OK) EXCEPT
                     !.args = [set_initial |-> set_initial,
                               enforce_required |-> enforce_required]]

NextForm ==
    /\ last.op = "input"
    /\ CallToFormField(last.pk, last.args.set_initial, last.args.enforce_required)

SpecForm == InitForm /\ [][NextForm]_vars

FormCalled == last.op = "to_form_field" /\ last.pk \in DOMAIN fields

----------------------------------------------------------------------------
(* SpecKinds: fields of a selection type and of another type side by side. *)
(* Text and select fields "f" and "g" are created, edited and deleted;     *)
(* choices are saved for either and deleted; a worker runs the jobs.       *)

KindsFieldInputs ==
    {FieldRow(name, type, FALSE, VNone, VNone, VNone, <<>>, DefaultWeight, RecordTypes) :
        name \in {"f", "g"}, type \in {TYPE_TEXT, TYPE_SELECT, TYPE_MULTISELECT}}

KindsChoiceInputs == {ChoiceRow(pk, value) : pk \in FieldPks, value \in ChoiceStrings}

NextKinds ==
    \/ \E pk \in FieldPks, obj \in KindsFieldInputs : SaveField(pk, obj)
    \/ \E pk \in FieldPks : DeleteField(pk)
    \/ \E cpk \in ChoicePks, cobj \in KindsChoiceInputs : SaveChoice(cpk, cobj)
    \/ \E cpk \in ChoicePks : DeleteChoice(cpk)
    \/ \E i \in 1..MaxQueue : RunJob(i)

SpecKinds == EmptyInit /\ [][NextKinds]_vars

\* C16: every stored choice belongs to a stored field of type select or
\* multi-select; save() of a choice whose field is of another type fails in
\* clean() and stores nothing; and clean() of a field that has a choice
\* fails for every other type.
C16_ChoicesOnlyOnSelectionFields ==
    /\ \A c \in DOMAIN choices :
          /\ choices[c].field \in DOMAIN fields
          /\ fields[choices[c].field].type \in {TYPE_SELECT, TYPE_MULTISELECT}
    /\ (/\ last.op = "choice_save"
        /\ fields[last.cobj.field].type \notin {TYPE_SELECT, TYPE_MULTISELECT}) =>
          /\ last.res = "not_selection"
          /\ last.pre = Snapshot
    /\ \A pk \in DOMAIN fields, type \in FieldTypes :
          (ChoicesOf(pk) /= {} /\ type \notin {TYPE_SELECT, TYPE_MULTISELECT}) =>
              FieldClean([fields[pk] EXCEPT !.type = type], pk) /= OK

\* C16 witness: with a choice stored for a select field, save() of a choice
\* for a text field was refused.
C16_Witness ==
    /\ last.op = "choice_save"
    /\ last.res = "not_selection"
    /\ fields[last.cobj.field].type = TYPE_TEXT
    /\ \E c \in DOMAIN choices : fields[choices[c].field].type = TYPE_SELECT

----------------------------------------------------------------------------
(* SpecExact: a selection field whose choices are "a" and "ab", one a      *)
(* substring of the other.  The field is created and edited (its default), *)
(* choices are created, renamed and deleted, records store "a", a worker   *)
(* runs the jobs.                                                          *)

ExactFieldInputs ==
    {FieldRow("f", type, FALSE, default, VNone, VNone, <<>>, DefaultWeight, {"T2"}) :
        type \in SelectionTypes, default \in {VNone, VStr(StrAB), VList(<<StrAB>>)}}

ExactChoiceInputs == {ChoiceRow(1, value) : value \in {StrA, StrAB}}

ExactBagInputs == {<<>>, <<Item("f", VStr(StrA))>>, <<Item("f", VList(<<StrA>>))>>}

NextExact ==
    \/ \E obj \in ExactFieldInputs : SaveField(1, obj)
    \/ \E cpk \in ChoicePks, cobj \in ExactChoiceInputs : SaveChoice(cpk, cobj)
    \/ \E cpk \in ChoicePks : DeleteChoice(cpk)
    \/ \E data \in ExactBagInputs : SaveRecord("r2", data)
    \/ \E i \in 1..MaxQueue : RunJob(i)

SpecExact == EmptyInit /\ [][NextExact]_vars

\* The value is the field's default, or an element of its default list.
DoomedIsDefault ==
    \/ Owner.default = VStr(Doomed)
    \/ Owner.default.k = "list" /\ Doomed \in Range(Owner.default.l)

\* Some record of a type the field applies to stores the value, or a list
\* with the value in it, under the field's name.
DoomedIsStored ==
    \E rid \in DOMAIN records :
        /\ records[rid].ct \in Owner.content_types
        /\ \E i \in 1..Len(records[rid].data) :
              /\ records[rid].data[i].key = Owner.name
              /\ \/ records[rid].data[i].val = VStr(Doomed)
                 \/ /\ records[rid].data[i].val.k = "list"
                    /\ Doomed \in Range(records[rid].data[i].val.l)

\* C17: delete() on a choice whose value is neither the field's default, nor
\* in the field's default list, nor stored under the field's name in a
\* record of a type the field applies to, succeeds and removes the entry.
C17_ProtectionExact ==
    (ChoiceDeleteCalled /\ ~DoomedIsDefault /\ ~DoomedIsStored) =>
        /\ last.res = OK
        /\ last.pk \notin DOMAIN choices

====
